---- MODULE Spec2Model ----
(***************************************************************************)
(* Model of the scandir directory scanner as seen through its Python       *)
(* binding (src/pyscandir/src/pyscandir.rs).                               *)
(*                                                                         *)
(* The binding struct  Scandir { instance, entries, errors }  and its      *)
(* methods are translated from the source.  The engine behind `instance`   *)
(* (scandir::Scandir: ScanController, Walker, ResultChannel) lives in      *)
(* another crate; it is modelled from the design document and every such   *)
(* definition is named Engine_* / Walker_* / Channel_* / Worker*.          *)
(*                                                                         *)
(* Threads: one consumer (the Python caller; the binding's &mut self       *)
(* methods never overlap each other) and one worker per running scan.      *)
(* The worker's steps interleave with the consumer's calls and with the    *)
(* steps inside the blocking / polling calls join and __next__.            *)
(***************************************************************************)
EXTENDS Integers, Sequences, FiniteSets, Bags, TLC

VARIABLES
    args,       \* the arguments Scandir::new was called with (never change)
    instance,   \* Scandir.instance : the engine (record, see Engine_new)
    entries,    \* Scandir.entries  : iterator buffer of ScandirResult
    errors,     \* Scandir.errors   : iterator buffer of (path, message)
    pc,         \* where the consumer is: "idle", or inside a blocking or polling
                \* call; "unconstructed" when Scandir::new failed
    ret,        \* the method the consumer called last and what it returned
    pushedE,    \* history: entries the worker pushed during the current scan
    pushedR,    \* history: errors the worker pushed during the current scan
    drainedE,   \* history: entries returned by results(only_new=true), in call order
    drainedR,   \* history: errors returned by results(only_new=true), in call order
    yielded,    \* history: items __next__ returned since __iter__
    hist,       \* history: how the scan has been used (record, see HistInit)
    fs          \* the file system: what is at the root path ("dir", "absent",
                \* "denied")

vars == <<args, fs, instance, entries, errors, pc, ret,
          pushedE, pushedR, drainedE, drainedR, yielded, hist>>

----------------------------------------------------------------------------
(* Bounds of the model.                                                    *)

\* largest max_file_cnt argument tried
MaxFileCnt == 2

\* scans started (start or __iter__) in one behaviour
MaxScans == 2

\* largest max_depth passed to Scandir::new
MaxDepth == 2

----------------------------------------------------------------------------
(* The directory tree being scanned.  Paths are relative to the root "".   *)
(*   c/        a directory that cannot be read                             *)
(*   a/        a directory                                                 *)
(*   a/x       a file                                                      *)
(*   b         a file                                                      *)

Root == ""

Children(d) ==
    CASE d = ""  -> <<"c", "a", "b">>
      [] d = "a" -> <<"a/x">>
      [] OTHER   -> <<>>

IsDir(p) == p \in {"", "a", "c"}

Dirs == {p \in {"", "a", "b", "c", "a/x"} : IsDir(p)}

Unreadable == {"c"}

\* root paths that cannot be scanned: one that does not exist, one that may
\* not be read
Absent == "/absent"

Denied == "/denied"

\* depth of a path: the root is at depth 0, its children at depth 1
Depth(p) ==
    CASE p = ""    -> 0
      [] p = "a/x" -> 2
      [] OTHER     -> 1

\* the directory a path lies in
Parent(p) == IF p = "a/x" THEN "a" ELSE ""

\* place of a path in the lexicographic order of the names
Rank(p) ==
    CASE p = ""    -> 0
      [] p = "a"   -> 1
      [] p = "a/x" -> 2
      [] p = "b"   -> 3
      [] p = "c"   -> 4

----------------------------------------------------------------------------
(* Sequence helpers.                                                       *)

RECURSIVE SelectSeqBy(_, _)
\* the subsequence of s of the elements in set S
SelectSeqBy(s, S) ==
    IF s = <<>> THEN <<>>
    ELSE (IF Head(s) \in S THEN <<Head(s)>> ELSE <<>>) \o SelectSeqBy(Tail(s), S)

RECURSIVE InsertByRank(_, _)
\* x put into the sequence s, which is in lexicographic order
InsertByRank(x, s) ==
    IF s = <<>> THEN <<x>>
    ELSE IF Rank(x) <= Rank(Head(s)) THEN <<x>> \o s
    ELSE <<Head(s)>> \o InsertByRank(x, Tail(s))

RECURSIVE SortByRank(_)
\* s in lexicographic order
SortByRank(s) ==
    IF s = <<>> THEN <<>> ELSE InsertByRank(Head(s), SortByRank(Tail(s)))

RECURSIVE SeqToBag(_)
SeqToBag(s) ==
    IF s = <<>> THEN EmptyBag ELSE SetToBag({Head(s)}) (+) SeqToBag(Tail(s))

\* the paths of a sequence of entries, errors or Python objects
PathsOf(s) == [k \in 1..Len(s) |-> s[k].path]

\* s is the end of t
IsSuffix(s, t) == Len(s) <= Len(t) /\ s = SubSeq(t, Len(t) - Len(s) + 1, Len(t))

\* Vec::pop: the last element is removed
PopLast(s) == SubSeq(s, 1, Len(s) - 1)

Last(s) == s[Len(s)]

----------------------------------------------------------------------------
(* The engine  scandir::Scandir  (modelled from the design document).      *)
(*                                                                         *)
(* instance is a record:                                                   *)
(*   state        EngineState: "Idle", "Running" or "Finished"; Stopping   *)
(*                is Running with the cancellation flag set                *)
(*   cancel       the cancellation flag                                    *)
(*   store        store_results                                            *)
(*   max_file_cnt 0 = unlimited                                            *)
(*   max_depth    0 = unlimited                                            *)
(*   sorted, skip_hidden, case_sensitive, return_type,                     *)
(*   dir_include, dir_exclude, file_include, file_exclude                  *)
(*                the rest of ScanConfig; a pattern set is a sequence of   *)
(*                at most one sequence of patterns (absent or present)     *)
(*   chE, chR     ResultChannel: the entries store and the errors store    *)
(*   offE, offR   ResultChannel: last-consumed offset of each store        *)
(*   wpc          the worker: "none", "check", "list", "push" or "exited"  *)
(*   todo         Walker: directories still to be listed (depth first)     *)
(*   pending      Walker: items of the directory just read, not yet pushed *)
(*   cnt          Walker: material entries pushed so far                   *)

\* construct, failure: the kind of the error for the root path, if any;
\* NotFound for an absent root
Engine_new_err(root_path) ==
    IF root_path = Absent THEN <<"NotFound">>
    ELSE IF root_path = Denied THEN <<"PermissionDenied">>
    ELSE <<>>

\* the text of the engine's construction error
Engine_err_string(kind) ==
    IF kind = "NotFound" THEN "No such file or directory" ELSE "Permission denied"

\* construct: store_results defaults to retaining history
Engine_new(root_path, store) ==
    [state |-> "Idle", cancel |-> FALSE,
     store |-> IF store = <<>> THEN TRUE ELSE store[1],
     max_file_cnt |-> 0, max_depth |-> 0,
     sorted |-> FALSE, skip_hidden |-> FALSE, case_sensitive |-> FALSE,
     return_type |-> "Base",
     dir_include |-> <<>>, dir_exclude |-> <<>>,
     file_include |-> <<>>, file_exclude |-> <<>>,
     chE |-> <<>>, chR |-> <<>>, offE |-> 0, offR |-> 0,
     wpc |-> "none", todo |-> <<>>, pending |-> <<>>, cnt |-> 0]

\* builder: max_file_cnt(n)
Engine_max_file_cnt(i, n) == [i EXCEPT !.max_file_cnt = n]

\* builders: the other fields of ScanConfig
Engine_sorted(i, b) == [i EXCEPT !.sorted = b]

Engine_skip_hidden(i, b) == [i EXCEPT !.skip_hidden = b]

Engine_max_depth(i, n) == [i EXCEPT !.max_depth = n]

Engine_dir_include(i, ps) == [i EXCEPT !.dir_include = ps]

Engine_dir_exclude(i, ps) == [i EXCEPT !.dir_exclude = ps]

Engine_file_include(i, ps) == [i EXCEPT !.file_include = ps]

Engine_file_exclude(i, ps) == [i EXCEPT !.file_exclude = ps]

Engine_case_sensitive(i, b) == [i EXCEPT !.case_sensitive = b]

Engine_return_type(i, t) == [i EXCEPT !.return_type = t]

\* busy: true iff Running
Engine_busy(i) == i.state = "Running"

\* finished: true iff the worker has exited and the engine has not been cleared
Engine_finished(i) == i.state = "Finished"

\* clear: valid only when Idle or Finished; back to Idle with an empty channel
Engine_clear(i) ==
    IF i.state = "Running" THEN i
    ELSE [i EXCEPT !.state = "Idle", !.cancel = FALSE,
                   !.chE = <<>>, !.chR = <<>>, !.offE = 0, !.offR = 0,
                   !.wpc = "none", !.todo = <<>>, !.pending = <<>>, !.cnt = 0]

\* start: fails if already Running; fails with NotFound if the root path does
\* not exist (root is what the file system holds there); otherwise spawns the
\* worker of a fresh scan.  kind and err are the io::Error's kind and text
Engine_start(i, root) ==
    IF Engine_busy(i)
    THEN [ok |-> FALSE, kind |-> "Other", err |-> "Busy", inst |-> i]
    ELSE IF root = "absent"
    THEN [ok |-> FALSE, kind |-> "NotFound", err |-> Engine_err_string("NotFound"),
          inst |-> i]
    ELSE [ok |-> TRUE, kind |-> "", err |-> "",
          inst |-> [i EXCEPT !.state = "Running", !.cancel = FALSE,
                             !.chE = <<>>, !.chR = <<>>, !.offE = 0, !.offR = 0,
                             !.wpc = "check", !.todo = <<Root>>,
                             !.pending = <<>>, !.cnt = 0]]

\* stop: sets the cancellation flag; failure if not Running
Engine_stop(i) ==
    IF i.state = "Running" THEN [ok |-> TRUE, inst |-> [i EXCEPT !.cancel = TRUE]]
    ELSE [ok |-> FALSE, inst |-> i]

\* join: failure (at once) when no worker was started: the engine is Idle
Engine_join_fails(i) == i.state = "Idle"

\* join: the caller is released once the worker has exited
Engine_join_done(i) == i.wpc = "exited"

\* ResultChannel.drain(only_new) on one store: the items selected
Channel_select(ch, off, only_new) ==
    IF only_new THEN SubSeq(ch, off + 1, Len(ch)) ELSE ch

\* results(only_new): (entries, errors) and the engine afterwards.  only_new
\* advances the offsets; without store_results a drain evicts what it delivered
Engine_results(i, only_new) ==
    [entries |-> Channel_select(i.chE, i.offE, only_new),
     errors  |-> Channel_select(i.chR, i.offR, only_new),
     inst    |-> IF ~i.store
                 THEN [i EXCEPT !.chE = <<>>, !.chR = <<>>, !.offE = 0, !.offR = 0]
                 ELSE IF only_new
                 THEN [i EXCEPT !.offE = Len(i.chE), !.offR = Len(i.chR)]
                 ELSE i]

\* results_cnt(only_new): how many items the drain would select
Engine_results_cnt(i, only_new) ==
    Len(Channel_select(i.chE, i.offE, only_new))
        + Len(Channel_select(i.chR, i.offR, only_new))

\* has_results(only_new): whether the drain would select anything
Engine_has_results(i, only_new) ==
    \/ Channel_select(i.chE, i.offE, only_new) # <<>>
    \/ Channel_select(i.chR, i.offR, only_new) # <<>>

\* entries(only_new): the drain of the entry store alone
Engine_entries(i, only_new) ==
    [entries |-> Channel_select(i.chE, i.offE, only_new),
     inst    |-> IF ~i.store
                 THEN [i EXCEPT !.chE = <<>>, !.offE = 0]
                 ELSE IF only_new
                 THEN [i EXCEPT !.offE = Len(i.chE)]
                 ELSE i]

\* entries_cnt(only_new): how many entries the drain would select
Engine_entries_cnt(i, only_new) == Len(Channel_select(i.chE, i.offE, only_new))

\* has_entries(only_new): whether the drain would select an entry
Engine_has_entries(i, only_new) == Channel_select(i.chE, i.offE, only_new) # <<>>

\* errors(only_new): the drain of the error store alone
Engine_errors(i, only_new) ==
    [errors |-> Channel_select(i.chR, i.offR, only_new),
     inst   |-> IF ~i.store
                THEN [i EXCEPT !.chR = <<>>, !.offR = 0]
                ELSE IF only_new
                THEN [i EXCEPT !.offR = Len(i.chR)]
                ELSE i]

\* ResultChannel.push: appends to the store of the item's kind
Channel_push(i, item) ==
    IF item.tag = "Error"
    THEN [i EXCEPT !.chR = Append(@, item.err)]
    ELSE [i EXCEPT !.chE = Append(@, item)]

\* the worker exits: the engine is Finished
Walker_exit(i) ==
    [i EXCEPT !.state = "Finished", !.wpc = "exited", !.todo = <<>>, !.pending = <<>>]

\* a directory-listing boundary: the worker looks at the cancellation flag
Walker_check(i) ==
    IF i.cancel \/ i.todo = <<>> THEN Walker_exit(i) ELSE [i EXCEPT !.wpc = "list"]

\* PathFilter: glob match of a path; "*" matches every path, a pattern
\* without wildcard matches the path equal to it
Filter_glob(pat, p) == pat = "*" \/ pat = p

\* PathFilter: the path matches one of the patterns ps
Filter_any(ps, p) == \E k \in 1..Len(ps) : Filter_glob(ps[k], p)

\* PathFilter.matches: exclude patterns reject whatever the include patterns
\* say; include patterns, when present, must match; directory and file patterns
\* are separate
Filter_matches(i, p) ==
    LET inc == IF IsDir(p) THEN i.dir_include ELSE i.file_include
        exc == IF IsDir(p) THEN i.dir_exclude ELSE i.file_exclude
    IN  /\ ~(exc # <<>> /\ exc[1] # <<>> /\ Filter_any(exc[1], p))
        /\ (inc = <<>> \/ Filter_any(inc[1], p))

\* the children of directory d as the Walker visits them: accepted by the
\* filter, in lexicographic order if sorted, else in the order of the filesystem
Walker_children(i, d) ==
    LET cs == IF i.sorted THEN SortByRank(Children(d)) ELSE Children(d) IN
    SelectSeqBy(cs, {p \in {"a", "b", "c", "a/x"} : Filter_matches(i, p)})

\* a directory is descended into when the depth limit allows: with
\* max_depth > 0 a directory at depth max_depth is reported but not read
Walker_descends(i, d) == i.max_depth = 0 \/ Depth(d) < i.max_depth

RECURSIVE Walker_items(_, _)
\* the ResultItems of the children cs of a directory that was read
Walker_items(i, cs) ==
    IF cs = <<>> THEN <<>>
    ELSE <<[tag  |-> IF i.return_type = "Base" THEN "DirEntry" ELSE "DirEntryExt",
            path |-> Head(cs)]>> \o Walker_items(i, Tail(cs))

\* one directory read: its items are pending, its sub-directories are to do
Walker_list(i) ==
    LET d == Head(i.todo) IN
    IF d \in Unreadable
    THEN [i EXCEPT !.wpc = "push", !.todo = Tail(@),
                   !.pending = <<[tag |-> "Error",
                                   err |-> [path |-> d, msg |-> "PermissionDenied"]]>>]
    ELSE [i EXCEPT !.wpc = IF Walker_children(i, d) = <<>> THEN "check" ELSE "push",
                   !.todo = SelectSeqBy(Walker_children(i, d),
                                        {p \in Dirs : Walker_descends(i, p)}) \o Tail(@),
                   !.pending = Walker_items(i, Walker_children(i, d))]

\* the next pending item is pushed; the scan ends cleanly at max_file_cnt
Walker_push(i) ==
    LET item == Head(i.pending)
        j    == Channel_push(i, item)
        n    == IF item.tag = "Error" THEN i.cnt ELSE i.cnt + 1
        k    == [j EXCEPT !.pending = Tail(@), !.cnt = n]
    IN  IF item.tag # "Error" /\ i.max_file_cnt > 0 /\ n >= i.max_file_cnt
        THEN Walker_exit(k)
        ELSE IF k.pending = <<>> THEN [k EXCEPT !.wpc = "check"] ELSE k

----------------------------------------------------------------------------
(* The binding: src/pyscandir/src/pyscandir.rs.                            *)
(* Option<T> is a sequence of at most one element.                         *)

None == <<>>

Some(x) == <<x>>

unwrap_or(o, d) == IF o = None THEN d ELSE o[1]

\* result2py with the arms of the match confused: a DirEntry becomes nothing
result2py_dropped(r) ==
    CASE r.tag = "DirEntry"    -> None
      [] r.tag = "DirEntryExt" -> Some([cls |-> "DirEntryExt", path |-> r.path])
      [] r.tag = "Error"       -> None

\* fn result2py: an entry becomes a Python object, an Error becomes nothing
result2py(r) ==
    CASE r.tag = "DirEntry"    -> Some([cls |-> "DirEntry", path |-> r.path])
      [] r.tag = "DirEntryExt" -> Some([cls |-> "DirEntryExt", path |-> r.path])
      [] r.tag = "Error"       -> None

RECURSIVE filter_map_result2py_rev(_)
\* the list built back to front
filter_map_result2py_rev(es) ==
    IF es = <<>> THEN <<>> ELSE filter_map_result2py_rev(Tail(es)) \o result2py(Head(es))

RECURSIVE filter_map_result2py(_)
\* entries.iter().filter_map(|e| result2py(e, py)).collect()
filter_map_result2py(es) ==
    IF es = <<>> THEN <<>> ELSE result2py(Head(es)) \o filter_map_result2py(Tail(es))

\* (String, String).to_object: a Python tuple
error_to_object(e) == [cls |-> "tuple", path |-> e.path, msg |-> e.msg]

\* Scandir::new, the Err arm: FileNotFoundError for NotFound, Exception for
\* every other kind; no object is constructed
new_Err(kind) ==
    [ok  |-> FALSE,
     err |-> IF kind = "NotFound"
             THEN "PyFileNotFoundError: " \o Engine_err_string(kind)
             ELSE "PyException: " \o Engine_err_string(kind)]

\* Scandir::new, Ok: the object with the configured engine i and empty buffers
new_Ok(i) == [ok |-> TRUE, instance |-> i, entries |-> <<>>, errors |-> <<>>]

\* new with the max_file_cnt builder call left out
new_unlimited(a) ==
    IF Engine_new_err(a.root_path) # None
    THEN new_Err(Engine_new_err(a.root_path)[1])
    ELSE
    LET s0 == Engine_new(a.root_path, a.store)
        s1 == Engine_sorted(s0, unwrap_or(a.sorted, FALSE))
        s2 == Engine_skip_hidden(s1, unwrap_or(a.skip_hidden, FALSE))
        s3 == Engine_max_depth(s2, unwrap_or(a.max_depth, 0))
        s4 == s3
        s5 == Engine_dir_include(s4, a.dir_include)
        s6 == Engine_dir_exclude(s5, a.dir_exclude)
        s7 == Engine_file_include(s6, a.file_include)
        s8 == Engine_file_exclude(s7, a.file_exclude)
        s9 == Engine_case_sensitive(s8, unwrap_or(a.case_sensitive, FALSE))
    IN  new_Ok(Engine_return_type(s9, unwrap_or(a.return_type, "Base")))

\* new that hands the directory patterns over the wrong way round
new_dir_swapped(a) ==
    IF Engine_new_err(a.root_path) # None
    THEN new_Err(Engine_new_err(a.root_path)[1])
    ELSE
    LET s0 == Engine_new(a.root_path, a.store)
        s1 == Engine_sorted(s0, unwrap_or(a.sorted, FALSE))
        s2 == Engine_skip_hidden(s1, unwrap_or(a.skip_hidden, FALSE))
        s3 == Engine_max_depth(s2, unwrap_or(a.max_depth, 0))
        s4 == Engine_max_file_cnt(s3, unwrap_or(a.max_file_cnt, 0))
        s5 == Engine_dir_include(s4, a.dir_exclude)
        s6 == Engine_dir_exclude(s5, a.dir_include)
        s7 == Engine_file_include(s6, a.file_include)
        s8 == Engine_file_exclude(s7, a.file_exclude)
        s9 == Engine_case_sensitive(s8, unwrap_or(a.case_sensitive, FALSE))
    IN  new_Ok(Engine_return_type(s9, unwrap_or(a.return_type, "Base")))

\* new that does not hand the max_depth argument to the engine
new_no_depth(a) ==
    IF Engine_new_err(a.root_path) # None
    THEN new_Err(Engine_new_err(a.root_path)[1])
    ELSE
    LET s0 == Engine_new(a.root_path, a.store)
        s1 == Engine_sorted(s0, unwrap_or(a.sorted, FALSE))
        s2 == Engine_skip_hidden(s1, unwrap_or(a.skip_hidden, FALSE))
        s3 == s2
        s4 == Engine_max_file_cnt(s3, unwrap_or(a.max_file_cnt, 0))
        s5 == Engine_dir_include(s4, a.dir_include)
        s6 == Engine_dir_exclude(s5, a.dir_exclude)
        s7 == Engine_file_include(s6, a.file_include)
        s8 == Engine_file_exclude(s7, a.file_exclude)
        s9 == Engine_case_sensitive(s8, unwrap_or(a.case_sensitive, FALSE))
    IN  new_Ok(Engine_return_type(s9, unwrap_or(a.return_type, "Base")))

\* Scandir::new: the engine configured from the arguments and empty buffers,
\* or the error when the engine cannot be constructed
new(a) ==
    IF Engine_new_err(a.root_path) # None
    THEN new_Err(Engine_new_err(a.root_path)[1])
    ELSE
    LET s0 == Engine_new(a.root_path, a.store)
        s1 == Engine_sorted(s0, unwrap_or(a.sorted, FALSE))
        s2 == Engine_skip_hidden(s1, unwrap_or(a.skip_hidden, FALSE))
        s3 == Engine_max_depth(s2, unwrap_or(a.max_depth, 0))
        s4 == Engine_max_file_cnt(s3, unwrap_or(a.max_file_cnt, 0))
        s5 == Engine_dir_include(s4, a.dir_include)
        s6 == Engine_dir_exclude(s5, a.dir_exclude)
        s7 == Engine_file_include(s6, a.file_include)
        s8 == Engine_file_exclude(s7, a.file_exclude)
        s9 == Engine_case_sensitive(s8, unwrap_or(a.case_sensitive, FALSE))
    IN  new_Ok(Engine_return_type(s9, unwrap_or(a.return_type, "Base")))

\* what the variable instance holds when Scandir::new failed and there is no
\* object: no operation is ever called on it
NoObject == [Engine_new(Root, None) EXCEPT !.state = "NoObject"]

\* Scandir::busy
busy == Engine_busy(instance)

\* finished taken to be "not busy"
finished_notbusy == ~Engine_busy(instance)

\* Scandir::finished
finished == Engine_finished(instance)

----------------------------------------------------------------------------
(* History variables: they record, they never decide what the program      *)
(* does.  hist.mode says which protocol the current scan has followed:     *)
(*   "plain"  the channel was consumed by results(only_new=true) alone;    *)
(*            drainedE and drainedR are recorded                           *)
(*   "iter"   the scan was started by __iter__ and only __next__ was       *)
(*            called since; yielded is recorded                            *)
(*   "mixed"  anything else; nothing is recorded                           *)
(* hist.stopOk: stop has returned Ok(true) during the current scan.         *)
(* hist.lateList: the worker has read a directory after stop succeeded.    *)
(* hist.scans: scans started so far.                                       *)

HistInit ==
    [mode |-> "plain", stopOk |-> FALSE, lateList |-> FALSE, scans |-> 0,
     polled |-> None]

\* the histories after a step that leaves the scan in mode m, given what the
\* step adds to them
Record(m, dE, dR, ys) ==
    /\ hist' = [hist EXCEPT !.mode = m]
    /\ drainedE' = IF m = "plain" THEN drainedE \o dE ELSE <<>>
    /\ drainedR' = IF m = "plain" THEN drainedR \o dR ELSE <<>>
    /\ yielded' = IF m = "iter" THEN yielded \o ys ELSE <<>>
    /\ UNCHANGED <<pushedE, pushedR>>

\* the scan before this one was started by start, not stopped, ran to its end
\* and was drained to the last entry by results(only_new=true) calls
PolledRun ==
    /\ hist.scans > 0
    /\ hist.mode = "plain"
    /\ ~hist.stopOk
    /\ instance.wpc = "exited"
    /\ Len(drainedE) = Len(pushedE)

\* a scan begins in mode m: the histories of the previous scan are forgotten
FreshScan(m) ==
    /\ hist' = [mode |-> m, stopOk |-> FALSE, lateList |-> FALSE,
                 scans |-> hist.scans + 1,
                 polled |-> IF m = "collect" /\ PolledRun THEN Some(drainedE) ELSE None]
    /\ pushedE' = <<>> /\ pushedR' = <<>>
    /\ drainedE' = <<>> /\ drainedR' = <<>>
    /\ yielded' = <<>>

History == <<pushedE, pushedR, drainedE, drainedR, yielded, hist>>

----------------------------------------------------------------------------
(* The consumer's calls.  X_ret is what method X returns when called in    *)
(* the current state.                                                      *)

\* Scandir::clear
clear ==
    /\ pc = "idle"
    /\ instance' = Engine_clear(instance)
    /\ entries' = <<>>
    /\ errors' = <<>>
    /\ ret' = [op |-> "clear", val |-> "()"]
    /\ IF Engine_busy(instance)
       THEN Record(IF hist.mode = "iter" THEN "mixed" ELSE hist.mode, <<>>, <<>>, <<>>)
       ELSE /\ hist' = [hist EXCEPT !.mode = "plain", !.stopOk = FALSE, !.lateList = FALSE]
            /\ pushedE' = <<>> /\ pushedR' = <<>>
            /\ drainedE' = <<>> /\ drainedR' = <<>>
            /\ yielded' = <<>>
    /\ UNCHANGED <<fs, args, pc>>

\* Scandir::start, its result
start_ret ==
    LET r == Engine_start(instance, fs) IN
    IF r.ok THEN "Ok" ELSE "Err(PyException: " \o r.err \o ")"

\* start that empties the iterator buffers before it asks the engine
start_clearing ==
    /\ pc = "idle"
    /\ Engine_busy(instance) \/ hist.scans < MaxScans
    /\ entries' = <<>>
    /\ errors' = <<>>
    /\ instance' = Engine_start(instance, fs).inst
    /\ ret' = [op |-> "start", val |-> start_ret]
    /\ IF Engine_start(instance, fs).ok THEN FreshScan("plain") ELSE UNCHANGED History
    /\ UNCHANGED <<fs, args, pc>>

\* Scandir::start
start ==
    /\ pc = "idle"
    /\ Engine_busy(instance) \/ hist.scans < MaxScans
    /\ instance' = Engine_start(instance, fs).inst
    /\ ret' = [op |-> "start", val |-> start_ret]
    /\ IF Engine_start(instance, fs).ok THEN FreshScan("plain") ELSE UNCHANGED History
    /\ UNCHANGED <<fs, args, entries, errors, pc>>

\* stop that ignores what instance.stop() answered
stop_ret_ignored == "Ok(true)"

\* Scandir::stop, its result
stop_ret ==
    IF ~Engine_stop(instance).ok THEN "Err(PyRuntimeError: Thread not running)"
    ELSE "Ok(true)"

\* stop that asks instance.busy() instead of calling instance.stop()
stop_flagless ==
    /\ pc = "idle"
    /\ instance' = instance
    /\ ret' = [op |-> "stop", val |-> stop_ret]
    /\ hist' = [hist EXCEPT !.stopOk = @ \/ (stop_ret = "Ok(true)")]
    /\ UNCHANGED <<fs, args, entries, errors, pc, pushedE, pushedR, drainedE, drainedR, yielded>>

\* Scandir::stop
stop ==
    /\ pc = "idle"
    /\ instance' = Engine_stop(instance).inst
    /\ ret' = [op |-> "stop", val |-> stop_ret]
    /\ hist' = [hist EXCEPT !.stopOk = @ \/ (stop_ret = "Ok(true)")]
    /\ UNCHANGED <<fs, args, entries, errors, pc, pushedE, pushedR, drainedE, drainedR, yielded>>

\* Scandir::join, its result
join_ret ==
    IF Engine_join_fails(instance) THEN "Err(PyRuntimeError: Thread not running)"
    ELSE "Ok(true)"

\* join that does not wait for instance.join()
join_nowait ==
    /\ pc = "idle"
    /\ pc' = "idle"
    /\ ret' = [op |-> "join", val |-> join_ret]
    /\ UNCHANGED <<fs, args, instance, entries, errors, History>>

\* Scandir::join, the call: it fails at once, or blocks in instance.join()
join ==
    /\ pc = "idle"
    /\ pc' = IF Engine_join_fails(instance) THEN "idle" ELSE "joining"
    /\ ret' = IF Engine_join_fails(instance) THEN [op |-> "join", val |-> join_ret] ELSE ret
    /\ UNCHANGED <<fs, args, instance, entries, errors, History>>

\* Scandir::join, the return: instance.join() came back, the worker has exited
join_return ==
    /\ pc = "joining"
    /\ Engine_join_done(instance)
    /\ pc' = "idle"
    /\ ret' = [op |-> "join", val |-> join_ret]
    /\ UNCHANGED <<fs, args, instance, entries, errors, History>>

\* Scandir::results, its result
results_ret(only_new) ==
    LET r == Engine_results(instance, unwrap_or(only_new, TRUE)) IN
    <<filter_map_result2py(r.entries), r.errors>>

\* results that hands the only_new flag over negated
results_negated(only_new) ==
    /\ pc = "idle"
    /\ LET r == Engine_results(instance, ~unwrap_or(only_new, TRUE)) IN
       /\ instance' = r.inst
       /\ ret' = [op |-> "results", arg |-> only_new,
                  val |-> <<filter_map_result2py(r.entries), r.errors>>]
       /\ Record("mixed", <<>>, <<>>, <<>>)
    /\ UNCHANGED <<fs, args, entries, errors, pc>>

\* Scandir::results
results(only_new) ==
    /\ pc = "idle"
    /\ LET r == Engine_results(instance, unwrap_or(only_new, TRUE)) IN
       /\ instance' = r.inst
       /\ ret' = [op |-> "results", arg |-> only_new, val |-> results_ret(only_new)]
       /\ IF unwrap_or(only_new, TRUE)
          THEN Record(IF hist.mode = "plain" THEN "plain" ELSE "mixed",
                      results_ret(only_new)[1], results_ret(only_new)[2], <<>>)
          ELSE Record(IF r.inst = instance THEN hist.mode ELSE "mixed", <<>>, <<>>, <<>>)
    /\ UNCHANGED <<fs, args, entries, errors, pc>>

\* PyDict.set_item: the value of key k is v; a key that is there keeps its place
dict_set_item(d, k, v) ==
    IF \E n \in 1..Len(d) : d[n].key = k
    THEN [n \in 1..Len(d) |-> IF d[n].key = k THEN [key |-> k, value |-> v] ELSE d[n]]
    ELSE Append(d, [key |-> k, value |-> v])

\* String.to_object: a Python str
string_to_object(m) == [cls |-> "str", msg |-> m]

RECURSIVE dict_of_entries(_, _)
\* Scandir::as_dict, the first loop: every entry is set at its path, an error
\* among the entries as its message
dict_of_entries(d, es) ==
    IF es = <<>> THEN d
    ELSE LET e == Head(es) IN
         dict_of_entries(
             dict_set_item(d, IF e.tag = "Error" THEN e.err.path ELSE e.path,
                           IF e.tag = "Error" THEN string_to_object(e.err.msg)
                           ELSE [cls |-> e.tag, path |-> e.path]),
             Tail(es))

RECURSIVE dict_of_errors(_, _)
\* Scandir::as_dict, the second loop: every error is set at its path, as its
\* message
dict_of_errors(d, rs) ==
    IF rs = <<>> THEN d
    ELSE dict_of_errors(dict_set_item(d, Head(rs).path, string_to_object(Head(rs).msg)),
                        Tail(rs))

\* Scandir::as_dict, its result: the dict, as the sequence of its items
as_dict_ret(only_new) ==
    LET r == Engine_results(instance, unwrap_or(only_new, TRUE)) IN
    dict_of_errors(dict_of_entries(<<>>, r.entries), r.errors)

\* Scandir::as_dict
as_dict(only_new) ==
    /\ pc = "idle"
    /\ LET r == Engine_results(instance, unwrap_or(only_new, TRUE)) IN
       /\ instance' = r.inst
       /\ ret' = [op |-> "as_dict", val |-> as_dict_ret(only_new)]
       /\ Record(IF r.inst = instance THEN hist.mode ELSE "mixed", <<>>, <<>>, <<>>)
    /\ UNCHANGED <<fs, args, entries, errors, pc>>

\* Scandir::has_results, its result
has_results_ret(only_new) == Engine_has_results(instance, unwrap_or(only_new, TRUE))

\* results_cnt that takes only_new as false when it is not given
results_cnt_ret_all(only_new) == Engine_results_cnt(instance, unwrap_or(only_new, FALSE))

\* Scandir::results_cnt, its result
results_cnt_ret(only_new) == Engine_results_cnt(instance, unwrap_or(only_new, TRUE))

\* Scandir::has_entries, its result
has_entries_ret(only_new) == Engine_has_entries(instance, unwrap_or(only_new, TRUE))

\* Scandir::entries_cnt, its result
entries_cnt_ret(only_new) == Engine_entries_cnt(instance, unwrap_or(only_new, TRUE))

\* Scandir::entries, its result
entries_ret(only_new) ==
    filter_map_result2py(Engine_entries(instance, unwrap_or(only_new, TRUE)).entries)

\* Scandir::has_results
has_results(only_new) ==
    /\ pc = "idle"
    /\ ret' = [op |-> "has_results", val |-> has_results_ret(only_new)]
    /\ UNCHANGED <<fs, args, instance, entries, errors, pc, History>>

\* Scandir::results_cnt
results_cnt(only_new) ==
    /\ pc = "idle"
    /\ ret' = [op |-> "results_cnt", val |-> results_cnt_ret(only_new)]
    /\ UNCHANGED <<fs, args, instance, entries, errors, pc, History>>

\* Scandir::has_entries
has_entries(only_new) ==
    /\ pc = "idle"
    /\ ret' = [op |-> "has_entries", val |-> has_entries_ret(only_new)]
    /\ UNCHANGED <<fs, args, instance, entries, errors, pc, History>>

\* Scandir::entries_cnt
entries_cnt(only_new) ==
    /\ pc = "idle"
    /\ ret' = [op |-> "entries_cnt", val |-> entries_cnt_ret(only_new)]
    /\ UNCHANGED <<fs, args, instance, entries, errors, pc, History>>

\* Scandir::entries
entries_op(only_new) ==
    /\ pc = "idle"
    /\ LET r == Engine_entries(instance, unwrap_or(only_new, TRUE)) IN
       /\ instance' = r.inst
       /\ ret' = [op |-> "entries", val |-> entries_ret(only_new)]
       /\ IF unwrap_or(only_new, TRUE)
          THEN Record(IF hist.mode = "plain" THEN "plain" ELSE "mixed",
                      entries_ret(only_new), <<>>, <<>>)
          ELSE Record(IF r.inst = instance THEN hist.mode ELSE "mixed", <<>>, <<>>, <<>>)
    /\ UNCHANGED <<fs, args, entries, errors, pc>>

\* collect that hands the entries over back to front
collect_ret_rev(r) == <<filter_map_result2py_rev(r.entries), r.errors>>

\* Scandir::collect, its result from what instance.collect() returned
collect_ret(r) == <<filter_map_result2py(r.entries), r.errors>>

\* the ? on an io::Error (From<io::Error> for PyErr): the exception class is
\* chosen by the error's kind, FileNotFoundError for NotFound, OSError for a
\* kind without a class of its own
PyErr_from(kind, msg) ==
    IF kind = "NotFound" THEN "PyFileNotFoundError: " \o msg
    ELSE "PyOSError: " \o msg

\* Scandir::collect, the call: instance.collect() starts the scan, or fails;
\* the ? hands the engine's io::Error on
collect ==
    /\ pc = "idle"
    /\ Engine_busy(instance) \/ hist.scans < MaxScans
    /\ instance' = Engine_start(instance, fs).inst
    /\ IF Engine_start(instance, fs).ok
       THEN /\ pc' = "collect"
            /\ FreshScan("collect")
            /\ UNCHANGED ret
       ELSE /\ ret' = [op |-> "collect", ok |-> FALSE,
                       val |-> "Err(" \o PyErr_from(Engine_start(instance, fs).kind,
                                                      Engine_start(instance, fs).err) \o ")"]
            /\ UNCHANGED <<pc, History>>
    /\ UNCHANGED <<fs, args, entries, errors>>

\* Scandir::collect, the return: instance.collect() has waited for the worker
\* to exit and reads all results
collect_return ==
    /\ pc = "collect"
    /\ ~Engine_busy(instance)
    /\ LET r == Engine_results(instance, FALSE) IN
       /\ instance' = r.inst
       /\ ret' = [op |-> "collect", ok |-> TRUE, val |-> collect_ret(r)]
    /\ pc' = "idle"
    /\ UNCHANGED <<fs, args, entries, errors, History>>

\* errors that hands the only_new flag over negated
errors_ret_negated(only_new) ==
    Engine_errors(instance, ~unwrap_or(only_new, TRUE)).errors

\* Scandir::errors, its result
errors_ret(only_new) ==
    Engine_errors(instance, unwrap_or(only_new, TRUE)).errors

\* Scandir::errors
errors_op(only_new) ==
    /\ pc = "idle"
    /\ LET r == Engine_errors(instance, unwrap_or(only_new, TRUE)) IN
       /\ instance' = r.inst
       /\ ret' = [op |-> "errors", val |-> errors_ret(only_new)]
       /\ IF unwrap_or(only_new, TRUE)
          THEN Record(IF hist.mode = "plain" THEN "plain" ELSE "mixed",
                      <<>>, errors_ret(only_new), <<>>)
          ELSE Record(IF r.inst = instance THEN hist.mode ELSE "mixed", <<>>, <<>>, <<>>)
    /\ UNCHANGED <<fs, args, entries, errors, pc>>

\* Scandir::__enter__, its result
enter_ret ==
    LET r == Engine_start(instance, fs) IN
    IF r.ok THEN "Ok(slf)" ELSE "Err(PyException: " \o r.err \o ")"

\* Scandir::__enter__
__enter__ ==
    /\ pc = "idle"
    /\ Engine_busy(instance) \/ hist.scans < MaxScans
    /\ instance' = Engine_start(instance, fs).inst
    /\ ret' = [op |-> "__enter__", val |-> enter_ret]
    /\ IF Engine_start(instance, fs).ok THEN FreshScan("plain") ELSE UNCHANGED History
    /\ UNCHANGED <<fs, args, entries, errors, pc>>

\* the types of the exception in flight when the scope is left: none, the
\* value error, another one
ExcTypes == {None, Some("ValueError"), Some("KeyError")}

\* the consumer is inside __exit__(ty), blocked in instance.join()
exit_pc(ty) == IF ty = None THEN "exit(None)" ELSE "exit(" \o ty[1] \o ")"

\* Scandir::__exit__, its result after stop and join: whether ty is the type
\* of the value error
exit_ret(ty) ==
    IF ty # None /\ ty[1] = "ValueError" THEN "Ok(true)" ELSE "Ok(false)"

\* Scandir::__exit__, the call: Ok(false) at once when instance.stop() says
\* no, else it blocks in instance.join()
__exit__(ty) ==
    /\ pc = "idle"
    /\ instance' = Engine_stop(instance).inst
    /\ IF ~Engine_stop(instance).ok
       THEN /\ ret' = [op |-> "__exit__", arg |-> ty, val |-> "Ok(false)"]
            /\ UNCHANGED <<pc, hist>>
       ELSE /\ pc' = exit_pc(ty)
            /\ hist' = [hist EXCEPT !.stopOk = TRUE]
            /\ UNCHANGED ret
    /\ UNCHANGED <<fs, args, entries, errors, pushedE, pushedR, drainedE, drainedR, yielded>>

\* Scandir::__exit__, the return: instance.join() came back
exit_return(ty) ==
    /\ pc = exit_pc(ty)
    /\ Engine_join_done(instance)
    /\ pc' = "idle"
    /\ ret' = [op |-> "__exit__", arg |-> ty, val |-> exit_ret(ty)]
    /\ UNCHANGED <<fs, args, instance, entries, errors, History>>

\* Scandir::__iter__, its result: the Busy error of the binding, the engine's
\* start error handed on by ?, or the iterator
iter_ret ==
    IF Engine_busy(instance) THEN "Err(PyRuntimeError: Busy)"
    ELSE IF ~Engine_start(instance, fs).ok
    THEN "Err(" \o PyErr_from(Engine_start(instance, fs).kind,
                              Engine_start(instance, fs).err) \o ")"
    ELSE "Ok(slf)"

\* __iter__ that does not empty the buffers
iter_keeping ==
    /\ pc = "idle"
    /\ Engine_busy(instance) \/ hist.scans < MaxScans
    /\ ret' = [op |-> "__iter__", val |-> iter_ret]
    /\ IF Engine_busy(instance) \/ ~Engine_start(instance, fs).ok
       THEN UNCHANGED <<instance, History>>
       ELSE /\ instance' = Engine_start(instance, fs).inst
            /\ FreshScan("iter")
    /\ UNCHANGED <<fs, args, entries, errors, pc>>

\* Scandir::__iter__
__iter__ ==
    /\ pc = "idle"
    /\ Engine_busy(instance) \/ hist.scans < MaxScans
    /\ ret' = [op |-> "__iter__", val |-> iter_ret]
    /\ IF Engine_busy(instance) \/ ~Engine_start(instance, fs).ok
       THEN UNCHANGED <<instance, entries, errors, History>>
       ELSE /\ instance' = Engine_start(instance, fs).inst
            /\ entries' = <<>>
            /\ errors' = <<>>
            /\ FreshScan("iter")
    /\ UNCHANGED <<fs, args, pc>>

\* __next__, the top of the loop: entries.pop(), then errors.pop(), on the
\* buffers es and rs; the object to return, or None when both are empty
next_pop(es, rs) ==
    IF es # <<>>
    THEN LET entry == Last(es) IN
         Some(IF entry.tag = "Error" THEN error_to_object(entry.err)
              ELSE [cls |-> entry.tag, path |-> entry.path])
    ELSE IF rs # <<>> THEN Some(error_to_object(Last(rs)))
    ELSE None

\* __next__ returns the object popped from the buffers es and rs
next_return(es, rs) ==
    /\ ret' = [op |-> "__next__", val |-> next_pop(es, rs)]
    /\ entries' = IF es # <<>> THEN PopLast(es) ELSE es
    /\ errors' = IF es # <<>> THEN rs ELSE PopLast(rs)
    /\ pc' = "idle"

\* Scandir::__next__, the call: something is buffered, or the loop polls
__next__ ==
    /\ pc = "idle"
    /\ IF next_pop(entries, errors) # None
       THEN /\ next_return(entries, errors)
            /\ Record(hist.mode, <<>>, <<>>, next_pop(entries, errors))
       ELSE /\ pc' = "next_poll"
            /\ UNCHANGED <<entries, errors, ret, History>>
    /\ UNCHANGED <<fs, args, instance>>

\* Scandir::__next__, in the loop: instance.results(true)
next_poll ==
    /\ pc = "next_poll"
    /\ LET r == Engine_results(instance, TRUE) IN
       /\ instance' = r.inst
       /\ IF r.entries = <<>> /\ r.errors = <<>>
          THEN /\ pc' = "next_busy"
               /\ UNCHANGED <<entries, errors, ret, History>>
          ELSE /\ next_return(entries \o r.entries, errors \o r.errors)
               /\ Record(IF hist.mode = "iter" THEN "iter" ELSE "mixed", <<>>, <<>>,
                         next_pop(entries \o r.entries, errors \o r.errors))
    /\ UNCHANGED <<fs, args>>

\* the busy test of __next__ the wrong way round
next_busy_negated ==
    /\ pc = "next_busy"
    /\ pc' = IF Engine_busy(instance) THEN "idle" ELSE "next_poll"
    /\ ret' = IF Engine_busy(instance) THEN [op |-> "__next__", val |-> None] ELSE ret
    /\ UNCHANGED <<fs, args, instance, entries, errors, History>>

\* Scandir::__next__, in the loop after an empty poll: instance.busy(); not
\* busy ends the iteration (None is returned), busy sleeps and polls again
next_busy ==
    /\ pc = "next_busy"
    /\ pc' = IF ~Engine_busy(instance) THEN "idle" ELSE "next_poll"
    /\ ret' = IF ~Engine_busy(instance) THEN [op |-> "__next__", val |-> None] ELSE ret
    /\ UNCHANGED <<fs, args, instance, entries, errors, History>>

----------------------------------------------------------------------------
(* The worker thread.                                                      *)

WorkerCheck ==
    /\ instance.wpc = "check"
    /\ instance' = Walker_check(instance)
    /\ UNCHANGED <<fs, args, entries, errors, pc, ret, History>>

WorkerList ==
    /\ instance.wpc = "list"
    /\ instance' = Walker_list(instance)
    /\ hist' = [hist EXCEPT !.lateList = hist.stopOk]
    /\ UNCHANGED <<fs, args, entries, errors, pc, ret,
                   pushedE, pushedR, drainedE, drainedR, yielded>>

WorkerPush ==
    /\ instance.wpc = "push"
    /\ instance' = Walker_push(instance)
    /\ LET item == Head(instance.pending) IN
       IF item.tag = "Error"
       THEN pushedR' = Append(pushedR, item.err) /\ UNCHANGED pushedE
       ELSE pushedE' = Append(pushedE, item) /\ UNCHANGED pushedR
    /\ UNCHANGED <<fs, args, entries, errors, pc, ret, drainedE, drainedR, yielded, hist>>

Worker == WorkerCheck \/ WorkerList \/ WorkerPush

----------------------------------------------------------------------------
(* The specification.                                                      *)

\* the arguments of Scandir::new that are tried
Args ==
    [root_path : {Root, Absent, Denied},
     sorted : {None}, skip_hidden : {None}, max_depth : {None},
     max_file_cnt : {None} \cup {Some(n) : n \in 1..MaxFileCnt},
     dir_include : {None}, dir_exclude : {None},
     file_include : {None}, file_exclude : {None},
     case_sensitive : {None}, return_type : {None},
     store : {None, Some(FALSE)}]

\* the state after Scandir::new with arguments drawn from A
Constructed(A) ==
    /\ args \in A
    /\ IF new(args).ok
       THEN /\ instance = new(args).instance
            /\ entries = new(args).entries
            /\ errors = new(args).errors
            /\ pc = "idle"
            /\ ret = [op |-> "new", val |-> "Ok"]
       ELSE /\ instance = NoObject
            /\ entries = <<>>
            /\ errors = <<>>
            /\ pc = "unconstructed"
            /\ ret = [op |-> "new", val |-> "Err(" \o new(args).err \o ")"]
    /\ fs = IF args.root_path = Absent THEN "absent"
            ELSE IF args.root_path = Denied THEN "denied"
            ELSE "dir"
    /\ pushedE = <<>> /\ pushedR = <<>>
    /\ drainedE = <<>> /\ drainedR = <<>>
    /\ yielded = <<>>
    /\ hist = HistInit

Init == Constructed(Args)

\* the environment: the root directory is removed.  Between scans only (what
\* the walker does when its root goes away under it is not modelled), and
\* only while a scan can still be started
RemoveRoot ==
    /\ pc # "unconstructed"
    /\ fs = "dir"
    /\ ~Engine_busy(instance)
    /\ hist.scans < MaxScans
    /\ fs' = "absent"
    /\ UNCHANGED <<args, instance, entries, errors, pc, ret, History>>

Next ==
    \/ clear
    \/ start
    \/ stop
    \/ join
    \/ join_return
    \/ \E only_new \in {None, Some(TRUE), Some(FALSE)} : results(only_new)
    \/ \E only_new \in {None, Some(TRUE), Some(FALSE)} : errors_op(only_new)
    \/ \E only_new \in {None, Some(TRUE), Some(FALSE)} : as_dict(only_new)
    \/ \E only_new \in {None, Some(TRUE), Some(FALSE)} : entries_op(only_new)
    \/ collect
    \/ collect_return
    \/ __enter__
    \/ \E ty \in ExcTypes : __exit__(ty)
    \/ \E ty \in ExcTypes : exit_return(ty)
    \/ __iter__
    \/ __next__
    \/ next_poll
    \/ next_busy
    \/ WorkerCheck
    \/ WorkerList
    \/ WorkerPush
    \/ RemoveRoot

Spec == Init /\ [][Next]_vars

\* Scandir::new called with root_path only
DefaultArgs ==
    [root_path |-> Root,
     sorted |-> None, skip_hidden |-> None, max_depth |-> None,
     max_file_cnt |-> None,
     dir_include |-> None, dir_exclude |-> None,
     file_include |-> None, file_exclude |-> None,
     case_sensitive |-> None, return_type |-> None,
     store |-> None]

\* scans with a depth limit
ArgsDepth ==
    {[DefaultArgs EXCEPT !.max_depth = d] :
        d \in {None} \cup {Some(n) : n \in 0..MaxDepth}}

SpecDepth == Constructed(ArgsDepth) /\ [][Next]_vars

\* scans with include and exclude patterns
ArgsFilter ==
    {[DefaultArgs EXCEPT !.dir_exclude = de, !.dir_include = di, !.file_include = fi] :
        de \in {None, Some(<<"a">>)},
        di \in {None, Some(<<"a">>)},
        fi \in {None, Some(<<"a/x">>)}}

SpecFilter == Constructed(ArgsFilter) /\ [][Next]_vars

\* scans in sorted and in filesystem order, results retained or not
ArgsSorted ==
    {[DefaultArgs EXCEPT !.sorted = so, !.store = st] :
        so \in {None, Some(TRUE)}, st \in {None, Some(FALSE)}}

SpecSorted == Constructed(ArgsSorted) /\ [][Next]_vars

\* the operations of Next and the queries has_results, results_cnt,
\* has_entries and entries_cnt, which the other specifications leave out: they
\* change nothing but the answer the consumer holds
NextQuery ==
    \/ Next
    \/ \E only_new \in {None, Some(TRUE), Some(FALSE)} : has_results(only_new)
    \/ \E only_new \in {None, Some(TRUE), Some(FALSE)} : results_cnt(only_new)
    \/ \E only_new \in {None, Some(TRUE), Some(FALSE)} : has_entries(only_new)
    \/ \E only_new \in {None, Some(TRUE), Some(FALSE)} : entries_cnt(only_new)

\* scans that leave out directory a, results retained or not
ArgsQuery ==
    {[DefaultArgs EXCEPT !.dir_exclude = Some(<<"a">>), !.store = st] :
        st \in {None, Some(FALSE)}}

SpecQuery == Constructed(ArgsQuery) /\ [][NextQuery]_vars

\* scans that leave out directory a, to their end or to the first entry
ArgsFair ==
    {[DefaultArgs EXCEPT !.dir_exclude = Some(<<"a">>), !.max_file_cnt = m] :
        m \in {None, Some(1)}}

\* the operating system schedules the worker thread, and a consumer inside a
\* blocking or polling call goes on
FairSpec ==
    /\ Constructed(ArgsFair)
    /\ [][Next]_vars
    /\ WF_vars(Worker)
    /\ WF_vars(join_return)
    /\ WF_vars(next_poll)
    /\ WF_vars(next_busy)
    /\ WF_vars(collect_return)
    /\ WF_vars(\E ty \in ExcTypes : exit_return(ty))

----------------------------------------------------------------------------
(* Claims.                                                                 *)

\* what results(only_new=true) would return if it were called now
NewNow == results_ret(Some(TRUE))

\* what results(only_new=false) would return if it were called now
AllNow == results_ret(Some(FALSE))

\* every item pushed so far was returned by the results(only_new=true) calls made
\* so far or is returned by the next one, each item once
ExactlyOnceToDrains ==
    hist.mode = "plain" =>
        /\ SeqToBag(PathsOf(drainedE \o NewNow[1])) = SeqToBag(PathsOf(pushedE))
        /\ SeqToBag(drainedR \o NewNow[2]) = SeqToBag(pushedR)

\* results(only_new=false) returns every pushed item once
FullReadComplete ==
    /\ SeqToBag(PathsOf(AllNow[1])) = SeqToBag(PathsOf(pushedE))
    /\ SeqToBag(AllNow[2]) = SeqToBag(pushedR)

\* C1 as stated: with results(only_new=true) as the only consuming call, every
\* pushed item is returned by exactly one of the calls, and once the scan has
\* finished results(only_new=false) returns every pushed item exactly once.
C1_AsStated ==
    /\ ExactlyOnceToDrains
    /\ (finished /\ hist.mode = "plain") => FullReadComplete

\* C1 amended: every pushed item is returned by exactly one of the
\* results(only_new=true) calls; once the scan has finished
\* results(only_new=false) returns every pushed item exactly once provided the
\* engine retains results (store_results true, the default).
C1_ExactlyOnce ==
    /\ ExactlyOnceToDrains
    /\ (finished /\ instance.store) => FullReadComplete

\* C1 witness: a finished scan that retains results, drained in part while it ran
C1_Witness ==
    /\ finished /\ instance.store /\ hist.mode = "plain"
    /\ drainedE # <<>> /\ NewNow[1] # <<>> /\ pushedR # <<>>
    /\ Len(AllNow[1]) = 4

\* C2: each store keeps the production order (what it holds is the end of what
\* was pushed, in the same order), and the results of the successive
\* results(only_new=true) calls, concatenated in call order and followed by what
\* the next call returns, are the pushed items in production order.
C2_ProductionOrder ==
    /\ IsSuffix(instance.chE, pushedE)
    /\ IsSuffix(instance.chR, pushedR)
    /\ hist.mode = "plain" =>
           /\ PathsOf(drainedE \o NewNow[1]) = PathsOf(pushedE)
           /\ drainedR \o NewNow[2] = pushedR

\* C2 witness: entries were drained, more were pushed since, in a scan that
\* produced several entries and an error
C2_Witness ==
    /\ hist.mode = "plain"
    /\ Len(drainedE) >= 2 /\ NewNow[1] # <<>> /\ drainedR # <<>>

\* C3: when __next__ signals exhaustion in an iteration (__iter__, then only
\* __next__), every item the worker pushed during the scan has been yielded
\* exactly once.
C3_IterationExhaustive ==
    (pc = "idle" /\ ret.op = "__next__" /\ ret.val = None /\ hist.mode = "iter") =>
        SeqToBag(PathsOf(yielded)) = SeqToBag(PathsOf(pushedE) \o PathsOf(pushedR))

\* C4: after stop has succeeded the worker reads at most one more directory,
\* the engine becomes Finished, and a caller blocked in join is released.
C4_PromptCancel ==
    /\ [][(instance.wpc = "list" /\ instance'.wpc # "list") => ~hist.lateList]_vars
    /\ (hist.stopOk ~> finished)
    /\ ((pc = "joining") ~> (pc = "idle"))

\* C4 witness: stop succeeded, the worker read one more directory (the root)
\* and exited with the directories below it unvisited
C4_Witness ==
    /\ hist.stopOk /\ hist.lateList /\ finished
    /\ instance.max_file_cnt = 0 /\ Len(pushedE) >= 2 /\ pushedR = <<>>

\* C5: when join has returned Ok(true) the worker has exited (not busy,
\* finished) and, exited, it pushes nothing more: only a busy worker is at a
\* push; join on a constructed object fails with "Thread not running", without
\* blocking, when no scan was ever started.
C5_Join ==
    /\ (pc = "idle" /\ ret.op = "join" /\ ret.val = "Ok(true)") =>
           (~busy /\ finished /\ instance.wpc = "exited")
    /\ instance.wpc \in {"check", "list", "push"} => busy
    /\ (hist.scans = 0 /\ pc # "unconstructed") =>
           (join_ret = "Err(PyRuntimeError: Thread not running)" /\ pc # "joining")

\* C5 witness: join has returned Ok(true) after a scan that pushed items
C5_Witness ==
    /\ pc = "idle" /\ ret.op = "join" /\ ret.val = "Ok(true)"
    /\ pushedE # <<>> /\ pushedR # <<>>

\* C6: a start called while the engine is Running returns the Busy error and
\* changes neither the engine (state, worker, results, offsets) nor the buffers.
C6_StartWhileRunning ==
    [][(ret' # ret /\ ret'.op = "start" /\ busy) =>
           (/\ ret'.val = "Err(PyException: Busy)"
            /\ UNCHANGED <<instance, entries, errors>>)]_vars

\* C6 witness: start has failed on a running scan with results accumulated,
\* an offset advanced and items buffered
C6_Witness ==
    /\ ret.op = "start" /\ ret.val = "Err(PyException: Busy)" /\ busy
    /\ instance.chE # <<>> /\ instance.offE > 0 /\ entries # <<>>

\* C7: stop called when the engine is not Running returns the "Thread not
\* running" error and changes nothing; called on a Running engine it returns
\* Ok(true) and the cancellation flag of the running worker is set.
C7_Stop ==
    [][(ret' # ret /\ ret'.op = "stop") =>
           IF busy
           THEN ret'.val = "Ok(true)" /\ instance'.cancel /\ busy'
           ELSE /\ ret'.val = "Err(PyRuntimeError: Thread not running)"
                /\ UNCHANGED <<instance, entries, errors>>]_vars

\* C7 witness: stop has failed on a scan that an earlier stop had ended
C7_Witness ==
    /\ ret.op = "stop" /\ ret.val = "Err(PyRuntimeError: Thread not running)"
    /\ hist.stopOk /\ finished

\* the EngineState the queries busy and finished show
EngineState == IF busy THEN "Running" ELSE IF finished THEN "Finished" ELSE "Idle"

\* busy exactly while the worker lives, finished exactly when it has exited and
\* the engine was not cleared since, never both
BusyFinished ==
    /\ busy <=> instance.wpc \in {"check", "list", "push"}
    /\ finished <=> instance.wpc = "exited"
    /\ ~(busy /\ finished)

\* the step is a start, an __iter__ or an __enter__ that succeeded, or a
\* collect that started its scan
IsStartStep ==
    /\ \/ ret'.op \in {"start", "__iter__", "__enter__"} /\ ret'.val \in {"Ok", "Ok(slf)"}
       \/ pc = "idle" /\ pc' = "collect"
    /\ instance'.wpc = "check" /\ hist'.scans = hist.scans + 1

\* C8 as stated: busy and finished are as BusyFinished says, and the engine
\* state changes only Idle -> Running (start), Running -> Finished (the worker
\* exits) and Finished -> Idle (clear).
C8_AsStated ==
    /\ []BusyFinished
    /\ [][EngineState' # EngineState =>
            \/ EngineState = "Idle" /\ EngineState' = "Running" /\ IsStartStep
            \/ EngineState = "Running" /\ EngineState' = "Finished"
                  /\ instance'.wpc = "exited"
            \/ EngineState = "Finished" /\ EngineState' = "Idle" /\ ret'.op = "clear"
         ]_vars

\* C8 amended: as stated, with one more transition: Finished -> Running, by a
\* start (or __iter__) on a finished engine.
C8_StateMachine ==
    /\ []BusyFinished
    /\ [][EngineState' # EngineState =>
            \/ EngineState \in {"Idle", "Finished"} /\ EngineState' = "Running"
                  /\ IsStartStep
            \/ EngineState = "Running" /\ EngineState' = "Finished"
                  /\ instance'.wpc = "exited"
            \/ EngineState = "Finished" /\ EngineState' = "Idle" /\ ret'.op = "clear"
         ]_vars

\* C8 witness: a second scan runs, started on the finished engine (the buffers
\* still hold items of the first scan, so no clear came between)
C8_Witness ==
    /\ busy /\ hist.scans = 2 /\ ret.op = "start" /\ ret.val = "Ok"
    /\ entries # <<>>

\* C9: a clear called while the scan is Running changes nothing: not the
\* engine (results, offsets, configuration), not the items already fetched.
C9_ClearWhileRunning ==
    [][(ret' # ret /\ ret'.op = "clear" /\ busy) =>
           UNCHANGED <<instance, entries, errors>>]_vars

\* C10: with max_file_cnt = N > 0 at most N entries are pushed; when the N-th
\* is pushed the worker has exited and the engine is Finished; and every error
\* pushed is for a path that could not be read.
C10_MaxFileCnt ==
    LET N == unwrap_or(args.max_file_cnt, 0) IN
    N > 0 =>
        /\ Len(pushedE) <= N
        /\ Len(AllNow[1]) <= N
        /\ Len(pushedE) = N => (finished /\ ~busy)
        /\ \A k \in 1..Len(pushedR) : pushedR[k].path \in Unreadable

\* C10 witness: the limit of 2 was reached on a tree of 4 entries
C10_Witness ==
    /\ args.max_file_cnt = Some(2)
    /\ finished /\ Len(pushedE) = 2 /\ Len(AllNow[1]) = 2

\* the scan ran to its natural end: the worker exited, no stop was accepted and
\* no file count limit is set
Completed ==
    /\ finished
    /\ ~hist.stopOk
    /\ instance.max_file_cnt = 0

\* C11 as stated: with max_depth = 0, given or defaulted, no entry at depth 2
\* or deeper is among the results.
C11_AsStated ==
    unwrap_or(args.max_depth, 0) = 0 =>
        \A k \in 1..Len(AllNow[1]) : Depth(AllNow[1][k].path) <= 1

\* C11, amended: max_depth = 0 means no depth limit, and a scan that ran to its
\* end with it reports the entry at depth 2; with max_depth = N > 0 no entry
\* deeper than N is among the results, so that max_depth = 1 yields only the
\* immediate children of the root.
C11_MaxDepth ==
    LET N == unwrap_or(args.max_depth, 0) IN
    /\ N > 0 => \A k \in 1..Len(AllNow[1]) : Depth(AllNow[1][k].path) <= N
    /\ (N = 0 /\ Completed) => "a/x" \in {AllNow[1][k].path : k \in 1..Len(AllNow[1])}

\* a scan with max_depth = 1 ran to its end and reported the three children of
\* the root
C11_Witness ==
    /\ args.max_depth = Some(1)
    /\ Completed
    /\ Len(AllNow[1]) = 3

\* the directory d matches a dir_exclude pattern given to Scandir::new
DirExcluded(d) ==
    /\ d \in Dirs
    /\ args.dir_exclude # None
    /\ Filter_any(args.dir_exclude[1], d)

\* C12: a directory matching a dir_exclude pattern is never listed by the
\* worker (it is never among the directories to read) and no entry beneath it
\* is pushed or returned, whatever the include patterns say.
C12_Pruning ==
    \A d \in Dirs : DirExcluded(d) =>
        /\ \A k \in 1..Len(instance.todo) : instance.todo[k] # d
        /\ \A k \in 1..Len(pushedE) : Parent(pushedE[k].path) # d
        /\ \A k \in 1..Len(AllNow[1]) : Parent(AllNow[1][k].path) # d
        /\ \A k \in 1..Len(yielded) : Parent(yielded[k].path) # d

\* a scan excluding directory a while including a and the file a/x beneath it
\* ran to its end
C12_Witness ==
    /\ args.dir_exclude = Some(<<"a">>)
    /\ args.dir_include = Some(<<"a">>)
    /\ args.file_include = Some(<<"a/x">>)
    /\ Completed
    /\ hist.scans = 1

\* the paths of the tree
Paths == {"a", "b", "c", "a/x"}

\* C13: a directory that cannot be read never aborts the scan. Every error
\* pushed is keyed to an unreadable path and no path has two; the push of an
\* error leaves the worker running with the directories still to read
\* unchanged; and when a scan of the whole tree ran to its end, errors
\* (only_new=false) returns exactly the unreadable paths, one error each, and
\* results (only_new=false) returns every path of the tree as an entry.
C13_ErrorsDoNotAbort ==
    /\ [](/\ \A k \in 1..Len(pushedR) : pushedR[k].path \in Unreadable
          /\ \A j, k \in 1..Len(pushedR) : pushedR[j].path = pushedR[k].path => j = k
          /\ (Completed /\ instance.store) =>
                /\ {errors_ret(Some(FALSE))[k].path :
                        k \in 1..Len(errors_ret(Some(FALSE)))} = Unreadable
                /\ Len(errors_ret(Some(FALSE))) = Cardinality(Unreadable)
                /\ {AllNow[1][k].path : k \in 1..Len(AllNow[1])} = Paths)
    /\ [][Len(pushedR') = Len(pushedR) + 1 =>
            /\ instance'.wpc = "check"
            /\ instance'.state = "Running"
            /\ instance'.todo = instance.todo]_vars

\* a scan ran to its end after its one error had been drained, and errors
\* (only_new=false) returned that error again
C13_Witness ==
    /\ Completed
    /\ instance.store
    /\ instance.offR = 1
    /\ ret.op = "errors"
    /\ Len(ret.val) = 1
    /\ Len(AllNow[1]) = 4

\* C14: collect returns the entries that the results(only_new=true) calls of a
\* start/join run without stop returned one after the other: the same sequence
\* in sorted mode, the same entries in any order in unsorted mode.
C14_CollectEqualsPolled ==
    (ret.op = "collect" /\ ret.ok /\ hist.mode = "collect" /\ hist.polled # None) =>
        IF instance.sorted
        THEN ret.val[1] = hist.polled[1]
        ELSE SeqToBag(ret.val[1]) = SeqToBag(hist.polled[1])

\* collect returned the four entries of a sorted scan after a polled run that
\* had been drained completely
C14_Witness ==
    /\ ret.op = "collect" /\ ret.ok
    /\ hist.mode = "collect" /\ hist.polled # None
    /\ instance.sorted
    /\ Len(ret.val[1]) = 4
    /\ Len(hist.polled[1]) = 4

\* the step is a call of results(only_new=false) on a finished scan that
\* returned something else than the call before it
IsFullReadStep ==
    /\ ret' # ret
    /\ ret'.op = "results"
    /\ ret'.arg = Some(FALSE)
    /\ finished

\* C15 as stated: on a finished scan, what results(only_new=false) returned is
\* what the next results(only_new=false) returns, with results retained or not.
C15_AsStated == [][IsFullReadStep => AllNow' = ret'.val]_vars

\* C15, amended: with results retained, what results(only_new=false) returned
\* on a finished scan is what the next such call returns, whatever was drained
\* before; with store_results=false the call evicts what it delivered and the
\* next one returns nothing.
C15_Idempotent ==
    [][IsFullReadStep =>
          IF instance.store THEN AllNow' = ret'.val ELSE AllNow' = <<<<>>, <<>>>>]_vars

\* results(only_new=false) returned the four entries of a finished scan, after
\* a results(only_new=true) call had drained some of them
C15_Witness ==
    /\ ret.op = "results"
    /\ ret.arg = Some(FALSE)
    /\ finished
    /\ instance.store
    /\ instance.offE > 0
    /\ Len(ret.val[1]) = 4

\* C16: a scope entered by __enter__ started the scan, and when __exit__
\* has returned from that scope the worker has exited (the engine is not
\* busy) and __exit__ returned true (the exception is swallowed) exactly when
\* the exception in flight is the value error, whatever state the engine was in
\* when the scope was left.
C16_ScopeExit ==
    [][(ret.op = "__enter__" /\ ret.val = "Ok(slf)" /\ ret'.op = "__exit__") =>
          /\ hist.scans > 0
          /\ ~busy'
          /\ instance'.wpc = "exited"
          /\ ret'.val = "Ok(true)" <=> ret'.arg = Some("ValueError")]_vars

RECURSIVE errors_to_objects(_)
\* the objects __next__ makes of the errors rs
errors_to_objects(rs) ==
    IF rs = <<>> THEN <<>>
    ELSE <<error_to_object(Head(rs))>> \o errors_to_objects(Tail(rs))

\* the objects an iteration can yield for what the worker pushed in this scan
PushedObjects == filter_map_result2py(pushedE) \o errors_to_objects(pushedR)

\* C17: __iter__ on a Running engine answers Busy and changes neither the
\* engine nor the buffers; an iteration started on an engine that is not busy
\* (the root is there, so the engine starts) begins a scan with empty buffers
\* and an empty channel, and yields only what the worker pushed in the scan it
\* started, each item no more often than it was pushed.
C17_FreshIteration ==
    /\ [][(busy /\ ret' # ret /\ ret'.op = "__iter__") =>
            /\ ret'.val = "Err(PyRuntimeError: Busy)"
            /\ UNCHANGED <<instance, entries, errors>>]_vars
    /\ [][(~busy /\ fs = "dir" /\ ret' # ret /\ ret'.op = "__iter__") =>
            /\ ret'.val = "Ok(slf)"
            /\ busy'
            /\ entries' = <<>> /\ errors' = <<>>
            /\ instance'.chE = <<>> /\ instance'.chR = <<>>]_vars
    /\ [](hist.mode = "iter" => SeqToBag(yielded) \sqsubseteq SeqToBag(PushedObjects))

\* the second iteration has yielded two items, and the buffers hold more
C17_Witness ==
    /\ hist.mode = "iter"
    /\ hist.scans = 2
    /\ Len(yielded) >= 2
    /\ entries # <<>>

\* what an iteration can still yield without the worker: the buffered items
\* and the new items in the channel
Remaining == Len(entries) + Len(errors) + Len(NewNow[1]) + Len(NewNow[2])

\* the step is the return of a __next__ call with an item
IsYieldStep ==
    /\ ret'.op = "__next__"
    /\ ret'.val # None
    /\ pc' = "idle"
    /\ \/ pc = "next_poll"
       \/ pc = "idle" /\ (entries' # entries \/ errors' # errors)

\* C18: under fair scheduling every __next__ call returns; once the worker has
\* exited each call that returns an item leaves one item less to yield and a
\* call with nothing left returns None; and a call returns None only when the
\* worker is not busy, so that it polls on while the worker is busy and
\* nothing new is there.
C18_IterationTerminates ==
    /\ (pc \in {"next_poll", "next_busy"}) ~> (pc = "idle")
    /\ (pc = "next_poll" /\ ~busy /\ Remaining = 0)
          ~> (pc = "idle" /\ ret.op = "__next__" /\ ret.val = None)
    /\ [][(IsYieldStep /\ ~busy) => Remaining' = Remaining - 1]_vars
    /\ [][(pc = "next_busy" /\ pc' = "idle") => (~busy /\ ret'.val = None)]_vars
    /\ [][(pc = "next_busy" /\ busy) => pc' \in {"next_busy", "next_poll"}]_vars

\* a __next__ call polled while the worker was busy with nothing new, the
\* worker exited, and the call returned None
C18_Witness ==
    /\ pc = "idle"
    /\ ret.op = "__next__"
    /\ ret.val = None
    /\ finished
    /\ hist.mode = "iter"
    /\ Len(yielded) >= 1

\* the queries
QueryOps == {"has_results", "results_cnt", "has_entries", "entries_cnt"}

\* C19: results_cnt counts what results would return with the same only_new,
\* entries_cnt what entries would return, has_results and has_entries say
\* whether that is anything; and a query leaves the engine (stored items and
\* offsets) and the buffers as they were.
C19_QueriesConsumeNothing ==
    /\ [](\A o \in {None, Some(TRUE), Some(FALSE)} :
            /\ results_cnt_ret(o) = Len(results_ret(o)[1]) + Len(results_ret(o)[2])
            /\ has_results_ret(o) <=> (results_ret(o) # <<<<>>, <<>>>>)
            /\ entries_cnt_ret(o) = Len(entries_ret(o))
            /\ has_entries_ret(o) <=> (entries_ret(o) # <<>>))
    /\ [][(ret' # ret /\ ret'.op \in QueryOps) => UNCHANGED <<instance, entries, errors>>]_vars

\* results_cnt answered 2, for an entry and an error not yet drained, after an
\* earlier drain
C19_Witness ==
    /\ ret.op = "results_cnt"
    /\ ret.val = 2
    /\ instance.offE > 0
    /\ results_cnt_ret(None) = 2
    /\ entries_cnt_ret(None) = 1
    /\ results_cnt_ret(Some(FALSE)) = 3

\* the object was made of an entry, not of an error
IsEntryObject(o) == o.cls # "tuple"

\* the entries the iteration has yielded, in the order it yielded them
YieldedEntries == SelectSeq(yielded, IsEntryObject)

\* the place of the entry with path p among the entries the worker pushed
PushedAt(p) == CHOOSE k \in 1..Len(pushedE) : pushedE[k].path = p

\* C20: the iteration yields the entries of a scan in the order the worker
\* pushed them: of two yielded entries the one yielded first was pushed first.
C20_IterationOrder ==
    hist.mode = "iter" =>
        \A i, j \in 1..Len(YieldedEntries) :
            i < j => PushedAt(YieldedEntries[i].path) < PushedAt(YieldedEntries[j].path)

====
